---- MODULE Spec2Model ----
(***************************************************************************)
(* Model of src/index.js: the change-aware indexing sequence run at        *)
(* process start (lines 30-64) and the conversational retrieval loop       *)
(* (lines 69-178).                                                         *)
(*                                                                         *)
(* The disk (corpus file, hash sidecar, vector_db directory) outlives the  *)
(* process; everything else is process memory and is lost when the process *)
(* ends.  The corpus file is edited only while no process runs.            *)
(***************************************************************************)
EXTENDS Integers, Sequences, FiniteSets, TLC

\* ------------------------------------------------------------------ bounds
NumCorpora == 2      \* distinct corpus contents the file can hold
MaxTurns == 2        \* questions read per process
MaxDocs == 2         \* documents returned by one retrieval
RowsPerCorpus == 2   \* rows of every corpus

Corpora == 1..NumCorpora
NoFile == 0          \* the file (or part of the index bundle) is absent

Questions == {"q1", "q2"}
\* the rephraser is a black box: it may echo the question or rewrite it
Rephrased == {"q1", "sq"}
Answers == {"a1", "a2"}
None == "none"

\* ------------------------------------------------------- pure definitions
\* calculateHash: a fixed-length digest, injective on the corpus contents
\* (sha256 is taken as collision free); digits least significant first.
HashLen == 3
RECURSIVE Digits(_, _)
Digits(n, k) == IF k = 0 THEN <<>> ELSE <<n % 2>> \o Digits(n \div 2, k - 1)

calculateHash(bytes) == Digits(bytes, HashLen)

\* `let previousHash;` without a value
Undefined == <<-1>>

\* JavaScript `!previousHash`: undefined and the empty string are falsy
Falsy(h) == h = Undefined \/ h = <<>>

\* mutant of NeedsReindex: the guard is always taken
NeedsReindexAlways(prev, cur) == TRUE

\* mutant of NeedsReindex: only a missing sidecar triggers the rebuild
NeedsReindexFirstRunOnly(prev, cur) == Falsy(prev)

\* line 50: if (!previousHash || currentHash !== previousHash)
NeedsReindex(prev, cur) == Falsy(prev) \/ cur # prev

\* CSVLoader: one document per row, in row order, a pure function of the bytes
Rows(bytes) == [i \in 1..RowsPerCorpus |-> "c" \o ToString(bytes) \o "r" \o ToString(i)]

\* the vector_db bundle: the vector file and the docstore file, each holding
\* the corpus it was derived from (NoFile when absent)
Parts == {"vectors", "docstore"}
NoIndex == [vectors |-> NoFile, docstore |-> NoFile]
BuiltFrom(bytes) == [vectors |-> bytes, docstore |-> bytes]
Complete(ix) == ix.vectors # NoFile /\ ix.vectors = ix.docstore

\* proper prefixes of a string: what a torn writeFileSync can leave behind
ProperPrefixes(s) == {SubSeq(s, 1, k) : k \in 0..(Len(s) - 1)}

\* lines 73-77: convertDocsToString
RECURSIVE Join(_, _)
Join(strs, sep) ==
  IF Len(strs) = 0 THEN ""
  ELSE IF Len(strs) = 1 THEN strs[1]
  ELSE strs[1] \o sep \o Join(Tail(strs), sep)

\* mutant of convertDocsToString: the blocks come out last document first
convertDocsToStringReversed(documents) ==
  Join([i \in 1..Len(documents) |->
          "<doc>\n" \o documents[Len(documents) + 1 - i] \o "\n</doc>"], "\n")

convertDocsToString(documents) ==
  Join([i \in 1..Len(documents) |-> "<doc>\n" \o documents[i] \o "\n</doc>"], "\n")

\* the retriever is a nearest-neighbour oracle over the loaded docstore: any
\* sequence of at most MaxDocs of its documents
Retrievals(store) ==
  UNION {[1..n -> {Rows(store.docstore)[i] : i \in 1..RowsPerCorpus}] : n \in 0..MaxDocs}

HumanMessage(text) == [role |-> "human", content |-> text]
AIMessage(text) == [role |-> "ai", content |-> text]

\* the chain input before the two assign steps have run
NoInput == [question |-> None, history |-> <<>>, standalone_question |-> None, context |-> None]
NoPrompt == [context |-> None, history |-> <<>>, question |-> None]

\* mutant of EnterHistory: the question is stored when the turn starts
EnterHistoryStoring(h, q) == Append(h, HumanMessage(q))

\* RunnableWithMessageHistory on entry: the stored messages are read and put
\* under "history"; the store itself is left as it is
EnterHistory(h, q) == h

\* mutant of ExitHistory: the answer is stored before the question
ExitHistorySwapped(h, inp, out) == h \o <<AIMessage(out), HumanMessage(inp.question)>>

\* RunnableWithMessageHistory on successful end: the input message, then the
\* output message, are added to the store
ExitHistory(h, inp, out) == h \o <<HumanMessage(inp.question), AIMessage(out)>>

\* line 81: the query handed to the retriever
RetrievalQuery(inp) == inp.question

\* mutant of PromptQuestion: the rephrased question is shown to the answer stage
PromptQuestionStandalone(inp) == inp.standalone_question

\* line 129: {question} of the answer prompt
PromptQuestion(inp) == inp.question

\* mutant of StageAfter: the retrieval step is left out of the sequence
StageAfterSkipping(st) ==
  CASE st = "Idle" -> "Rephrasing"
    [] st = "Rephrasing" -> "Generating"
    [] st = "Retrieving" -> "Generating"
    [] st = "Generating" -> "Idle"

\* lines 136-146: the steps of the RunnableSequence, in order
StageAfter(st) ==
  CASE st = "Idle" -> "Rephrasing"
    [] st = "Rephrasing" -> "Retrieving"
    [] st = "Retrieving" -> "Generating"
    [] st = "Generating" -> "Idle"

\* mutant of AcceptsLine: every line starts a turn
AcceptsLineAlways(pending) == TRUE

\* line 166: rl.question hands exactly one line to the callback; a line that
\* arrives while no question is pending has no listener
AcceptsLine(pending) == pending

\* line 170: the only session id the loop ever passes; another id a caller
\* of finalRetrievalChain could pass
ConfiguredSession == "test"
SessionIds == {"test", "other"}

\* line 152: getMessageHistory: (_sessionId) => messageHistory
getMessageHistory(store, sessionId) == store

IsPrefix(s, t) == Len(s) <= Len(t) /\ SubSeq(t, 1, Len(s)) = s

\* ---------------------------------------------------------------- state
VARIABLES
  corpus,            \* disk: docs/sample_qa.csv (NoFile or a corpus content)
  sidecarExists,     \* disk: docs/sample_qa_hash.txt exists
  sidecar,           \* disk: its content
  index,             \* disk: ./vector_db
  pc,                \* position of the process, "off" when none runs
  lastExit,          \* how the previous process ended, until the next has read the corpus
  currentHash, previousHash, docs, vectorstore_2, written, loadedVectorStore,
  startedFresh,      \* the sidecar held the digest of the corpus when the process started
  decided,           \* outcome of the guard of line 50
  nLoad, nBuild, nPersist, nSidecarWrite, nIndexLoad,
  messageHistory,    \* line 148: the one ChatMessageHistory of the process
  armed,             \* a rl.question callback is pending
  stage,             \* stage of the turn
  input,             \* the chain's input object
  rephrasePrompt, retrieverQuery, prompt,   \* what each stage was called with
  retrieved,         \* the documents the retriever returned in this turn
  finalResult,       \* line 167: resolved, not yet printed
  llmOutstanding, retrievalOutstanding, inflight,
  nRephrase, nRetrieve, nGenerate,          \* calls issued by the current turn
  nRead, nPrinted, dropped,
  asked, historyBefore, turnLog, lastTurn   \* what the user typed; completed turns

diskVars == <<corpus, sidecarExists, sidecar, index>>
startVars == <<currentHash, previousHash, docs, vectorstore_2, written, loadedVectorStore>>
ghostVars == <<startedFresh, decided>>
countVars == <<nLoad, nBuild, nPersist, nSidecarWrite, nIndexLoad>>
chatVars == <<messageHistory, armed, stage, input, rephrasePrompt, retrieverQuery, prompt,
              retrieved,
              finalResult, llmOutstanding, retrievalOutstanding, inflight,
              nRephrase, nRetrieve, nGenerate, nRead, nPrinted, dropped,
              asked, historyBefore, turnLog, lastTurn>>
vars == <<diskVars, pc, lastExit, startVars, ghostVars, countVars, chatVars>>

Init ==
  /\ corpus \in Corpora
  /\ sidecarExists = FALSE /\ sidecar = <<>>
  /\ index = NoIndex
  /\ pc = "off" /\ lastExit = None
  /\ startedFresh = FALSE
  /\ currentHash = Undefined /\ previousHash = Undefined
  /\ docs = NoFile /\ vectorstore_2 = NoIndex /\ written = {}
  /\ loadedVectorStore = NoIndex
  /\ decided = None
  /\ nLoad = 0 /\ nBuild = 0 /\ nPersist = 0 /\ nSidecarWrite = 0 /\ nIndexLoad = 0
  /\ messageHistory = <<>> /\ armed = FALSE /\ stage = "Idle" /\ input = NoInput
  /\ rephrasePrompt = NoPrompt /\ retrieverQuery = None /\ prompt = NoPrompt
  /\ retrieved = <<>>
  /\ finalResult = None
  /\ llmOutstanding = 0 /\ retrievalOutstanding = 0 /\ inflight = 0
  /\ nRephrase = 0 /\ nRetrieve = 0 /\ nGenerate = 0
  /\ nRead = 0 /\ nPrinted = 0 /\ dropped = FALSE
  /\ asked = None /\ historyBefore = <<>> /\ turnLog = <<>> /\ lastTurn = None

\* the memory of a process that does not run
ClearMemory ==
  /\ currentHash' = Undefined /\ previousHash' = Undefined
  /\ docs' = NoFile /\ vectorstore_2' = NoIndex /\ written' = {}
  /\ loadedVectorStore' = NoIndex
  /\ startedFresh' = FALSE /\ decided' = None
  /\ nLoad' = 0 /\ nBuild' = 0 /\ nPersist' = 0 /\ nSidecarWrite' = 0 /\ nIndexLoad' = 0
  /\ messageHistory' = <<>> /\ armed' = FALSE /\ stage' = "Idle" /\ input' = NoInput
  /\ rephrasePrompt' = NoPrompt /\ retrieverQuery' = None /\ prompt' = NoPrompt
  /\ retrieved' = <<>>
  /\ finalResult' = None
  /\ llmOutstanding' = 0 /\ retrievalOutstanding' = 0 /\ inflight' = 0
  /\ nRephrase' = 0 /\ nRetrieve' = 0 /\ nGenerate' = 0
  /\ nRead' = 0 /\ nPrinted' = 0 /\ dropped' = FALSE
  /\ asked' = None /\ historyBefore' = <<>> /\ turnLog' = <<>> /\ lastTurn' = None

\* the process ends; its memory is gone, the disk stays as it is
Exit(how) ==
  /\ pc' = "off" /\ lastExit' = how
  /\ ClearMemory
  /\ UNCHANGED diskVars

\* ------------------------------------------------------------ environment
\* the corpus file is edited, removed or restored between two runs
EditCorpus ==
  /\ pc = "off"
  /\ \E c \in (Corpora \cup {NoFile}) \ {corpus} : corpus' = c
  /\ UNCHANGED <<sidecarExists, sidecar, index, pc, lastExit, startVars, ghostVars, countVars, chatVars>>

\* `node index.js`
StartProcess ==
  /\ pc = "off"
  /\ pc' = "hash"
  /\ startedFresh' = (corpus # NoFile /\ sidecarExists /\ sidecar = calculateHash(corpus))
  /\ UNCHANGED <<diskVars, lastExit, startVars, decided, countVars, chatVars>>

\* the process is killed, or the machine goes down, at any point
Crash ==
  /\ pc # "off"
  /\ Exit("crash")

\* ------------------------------------------------------- startup, 38-64
\* line 38: currentHash = calculateHash(CSV_FILE_PATH)
ComputeHash ==
  /\ pc = "hash" /\ corpus # NoFile
  /\ currentHash' = calculateHash(corpus)
  /\ pc' = "readSidecar"
  /\ lastExit' = None
  /\ UNCHANGED <<diskVars, previousHash, docs, vectorstore_2, written,
                 loadedVectorStore, ghostVars, countVars>>
  /\ UNCHANGED chatVars

\* line 31: readFileSync throws when the corpus is missing
ComputeHashFail ==
  /\ pc = "hash" /\ corpus = NoFile
  /\ Exit("IOError")

\* lines 43-46 and the guard of line 50
ReadSidecar ==
  /\ pc = "readSidecar"
  /\ previousHash' = IF sidecarExists THEN sidecar ELSE Undefined
  /\ decided' = IF NeedsReindex(previousHash', currentHash) THEN "rebuild" ELSE "skip"
  /\ pc' = IF decided' = "rebuild" THEN "loadCsv" ELSE "loadIndex"
  /\ UNCHANGED <<diskVars, lastExit, currentHash, docs, vectorstore_2, written,
                 loadedVectorStore, startedFresh, countVars>>
  /\ UNCHANGED chatVars

\* line 45: the sidecar exists but readFileSync throws (not readable)
ReadSidecarFail ==
  /\ pc = "readSidecar" /\ sidecarExists
  /\ Exit("IOError:sidecar")

\* mutant of LoadCsv: the digest is stored as soon as the corpus is loaded
LoadCsvStoringHash ==
  /\ pc = "loadCsv"
  /\ docs' = corpus
  /\ nLoad' = nLoad + 1
  /\ sidecarExists' = TRUE /\ sidecar' = currentHash
  /\ nSidecarWrite' = nSidecarWrite + 1
  /\ pc' = "build"
  /\ UNCHANGED <<corpus, index, lastExit, currentHash, previousHash, vectorstore_2, written,
                 loadedVectorStore, ghostVars, nBuild, nPersist, nIndexLoad>>
  /\ UNCHANGED chatVars

\* lines 53-54: loader.load()
LoadCsv ==
  /\ pc = "loadCsv"
  /\ docs' = corpus
  /\ nLoad' = nLoad + 1
  /\ pc' = "build"
  /\ UNCHANGED <<diskVars, lastExit, currentHash, previousHash, vectorstore_2, written,
                 loadedVectorStore, ghostVars, nBuild, nPersist, nSidecarWrite, nIndexLoad>>
  /\ UNCHANGED chatVars

\* line 54 rejects (malformed csv): the top-level await ends the process
LoadCsvFail ==
  /\ pc = "loadCsv"
  /\ Exit("ParseError")

\* line 56: HNSWLib.fromDocuments(docs, embeddings)
Build ==
  /\ pc = "build"
  /\ vectorstore_2' = BuiltFrom(docs)
  /\ nBuild' = nBuild + 1
  /\ pc' = "save"
  /\ UNCHANGED <<diskVars, lastExit, currentHash, previousHash, docs, written,
                 loadedVectorStore, ghostVars, nLoad, nPersist, nSidecarWrite, nIndexLoad>>
  /\ UNCHANGED chatVars

\* line 56 rejects (an embedding call failed)
BuildFail ==
  /\ pc = "build"
  /\ Exit("EmbeddingError")

\* line 57: save() writes the files of the bundle one by one, in any order
SaveWrite ==
  /\ pc = "save"
  /\ \E p \in Parts \ written :
       /\ index' = [index EXCEPT ![p] = vectorstore_2[p]]
       /\ written' = written \cup {p}
  /\ nPersist' = IF written = {} THEN nPersist + 1 ELSE nPersist
  /\ pc' = IF written' = Parts THEN "writeHash" ELSE "save"
  /\ UNCHANGED <<corpus, sidecarExists, sidecar, lastExit, currentHash, previousHash, docs,
                 vectorstore_2, loadedVectorStore, ghostVars, nLoad, nBuild,
                 nSidecarWrite, nIndexLoad>>
  /\ UNCHANGED chatVars

\* line 57 rejects (a write failed); what was written so far stays on disk
SaveFail ==
  /\ pc = "save"
  /\ Exit("StorageError:save")

\* line 60: writeFileSync opens the sidecar with truncation ...
WriteHashOpen ==
  /\ pc = "writeHash"
  /\ sidecarExists' = TRUE
  /\ \E torn \in ProperPrefixes(currentHash) : sidecar' = torn
  /\ nSidecarWrite' = nSidecarWrite + 1
  /\ pc' = "writingHash"
  /\ UNCHANGED <<corpus, index, lastExit, startVars, ghostVars,
                 nLoad, nBuild, nPersist, nIndexLoad>>
  /\ UNCHANGED chatVars

\* ... and returns once the whole digest is in the file
WriteHashDone ==
  /\ pc = "writingHash"
  /\ sidecar' = currentHash
  /\ pc' = "loadIndex"
  /\ UNCHANGED <<corpus, sidecarExists, index, lastExit, startVars, ghostVars, countVars>>
  /\ UNCHANGED chatVars

\* mutant of LoadIndex: after a rebuild the store built in memory is used and
\* nothing is read back from ./vector_db
LoadIndexReusing ==
  /\ pc = "loadIndex"
  /\ index.vectors # NoFile /\ index.docstore # NoFile
  /\ loadedVectorStore' = IF decided = "rebuild" THEN vectorstore_2 ELSE index
  /\ nIndexLoad' = IF decided = "rebuild" THEN nIndexLoad ELSE nIndexLoad + 1
  /\ pc' = "serving"
  /\ UNCHANGED <<diskVars, lastExit, currentHash, previousHash, docs, vectorstore_2,
                 written, ghostVars, nLoad, nBuild, nPersist, nSidecarWrite>>
  /\ armed' = TRUE
  /\ UNCHANGED <<messageHistory, stage, input, rephrasePrompt, retrieverQuery, prompt,
                 retrieved, finalResult, llmOutstanding, retrievalOutstanding, inflight,
                 nRephrase, nRetrieve, nGenerate, nRead, nPrinted, dropped,
                 asked, historyBefore, turnLog, lastTurn>>

\* line 64: HNSWLib.load(DIRECTORY, embeddings); a bundle left with files of
\* two different saves still loads.  The rest of the module body runs without
\* a further await, up to the first askQuestion() of line 178.
LoadIndex ==
  /\ pc = "loadIndex"
  /\ index.vectors # NoFile /\ index.docstore # NoFile
  /\ loadedVectorStore' = index
  /\ nIndexLoad' = nIndexLoad + 1
  /\ pc' = "serving"
  /\ UNCHANGED <<diskVars, lastExit, currentHash, previousHash, docs, vectorstore_2,
                 written, ghostVars, nLoad, nBuild, nPersist, nSidecarWrite>>
  /\ armed' = TRUE
  /\ UNCHANGED <<messageHistory, stage, input, rephrasePrompt, retrieverQuery, prompt,
                 retrieved, finalResult, llmOutstanding, retrievalOutstanding, inflight,
                 nRephrase, nRetrieve, nGenerate, nRead, nPrinted, dropped,
                 asked, historyBefore, turnLog, lastTurn>>

\* line 64 rejects: the bundle is absent, incomplete or cannot be read
LoadIndexFail ==
  /\ pc = "loadIndex"
  /\ Exit("StorageError:load")

\* --------------------------------------------------- serving, 136-178
\* a step of the sequence is entered: its call is issued with what the chain
\* input holds at that moment; at the end of the sequence its objects are gone
Issue(st, inp, nR, nT, nG, llm, ret) ==
  /\ stage' = st
  /\ nRephrase' = nR + (IF st = "Rephrasing" THEN 1 ELSE 0)
  /\ nRetrieve' = nT + (IF st = "Retrieving" THEN 1 ELSE 0)
  /\ nGenerate' = nG + (IF st = "Generating" THEN 1 ELSE 0)
  /\ llmOutstanding' = llm + (IF st \in {"Rephrasing", "Generating"} THEN 1 ELSE 0)
  /\ retrievalOutstanding' = ret + (IF st = "Retrieving" THEN 1 ELSE 0)
  /\ rephrasePrompt' = IF st = "Rephrasing"
                         THEN [context |-> None, history |-> inp.history, question |-> inp.question]
                         ELSE IF st = "Idle" THEN NoPrompt ELSE rephrasePrompt
  /\ retrieverQuery' = IF st = "Retrieving" THEN RetrievalQuery(inp)
                       ELSE IF st = "Idle" THEN None ELSE retrieverQuery
  /\ prompt' = IF st = "Generating"
                 THEN [context |-> inp.context, history |-> inp.history,
                       question |-> PromptQuestion(inp)]
                 ELSE IF st = "Idle" THEN NoPrompt ELSE prompt

\* mutant of UserLine: the history handed to the chain already holds the
\* question of the turn
UserLineHistoryWithInput ==
  /\ pc = "serving" /\ AcceptsLine(armed) /\ nRead < MaxTurns
  /\ \E q \in Questions :
       /\ asked' = q
       /\ historyBefore' = messageHistory
       /\ messageHistory' = EnterHistory(messageHistory, q)
       /\ input' = [NoInput EXCEPT !.question = q,
                                   !.history = Append(messageHistory, HumanMessage(q))]
       /\ Issue(StageAfter("Idle"), input', 0, 0, 0, llmOutstanding, retrievalOutstanding)
  /\ armed' = FALSE
  /\ inflight' = inflight + 1
  /\ nRead' = nRead + 1
  /\ UNCHANGED <<diskVars, pc, lastExit, startVars, ghostVars, countVars,
                 retrieved, finalResult, nPrinted, dropped, turnLog, lastTurn>>

\* lines 166-171: the user enters a line; the pending question callback takes
\* it and invokes the chain, which enters its first step
UserLine ==
  /\ pc = "serving" /\ AcceptsLine(armed) /\ nRead < MaxTurns
  /\ \E q \in Questions :
       /\ asked' = q
       /\ historyBefore' = messageHistory
       /\ messageHistory' = EnterHistory(messageHistory, q)
       /\ input' = [NoInput EXCEPT !.question = q, !.history = messageHistory]
       /\ Issue(StageAfter("Idle"), input', 0, 0, 0, llmOutstanding, retrievalOutstanding)
  /\ armed' = FALSE
  /\ inflight' = inflight + 1
  /\ nRead' = nRead + 1
  /\ UNCHANGED <<diskVars, pc, lastExit, startVars, ghostVars, countVars,
                 retrieved, finalResult, nPrinted, dropped, turnLog, lastTurn>>

\* a line entered while no question is pending is not read by anyone
UserLineDropped ==
  /\ pc = "serving" /\ ~AcceptsLine(armed)
  /\ dropped' = TRUE
  /\ UNCHANGED <<diskVars, pc, lastExit, startVars, ghostVars, countVars,
                 messageHistory, armed, stage, input, rephrasePrompt, retrieverQuery, prompt,
                 retrieved, finalResult, llmOutstanding, retrievalOutstanding, inflight,
                 nRephrase, nRetrieve, nGenerate, nRead, nPrinted,
                 asked, historyBefore, turnLog, lastTurn>>

\* line 167 rejects inside the async callback and nothing catches it
TurnRejected ==
  /\ pc' = "rejected" /\ lastTurn' = "failed"
  /\ UNCHANGED <<diskVars, lastExit, startVars, ghostVars, countVars>>
  /\ UNCHANGED <<messageHistory, armed, stage, input, rephrasePrompt, retrieverQuery, prompt,
                 retrieved, finalResult, inflight, nRephrase, nRetrieve, nGenerate, nRead, nPrinted,
                 dropped, asked, historyBefore, turnLog>>

\* the unhandled rejection ends the process (Node 15 and later)
UnhandledRejection ==
  /\ pc = "rejected"
  /\ Exit("rejection")

\* lines 137-139: the rephrase call returns; standalone_question is assigned
\* and the next step is entered
RephraseReturn ==
  /\ pc = "serving" /\ stage = "Rephrasing"
  /\ \E s \in Rephrased :
       /\ input' = [input EXCEPT !.standalone_question = s]
       /\ Issue(StageAfter(stage), input', nRephrase, nRetrieve, nGenerate,
                llmOutstanding - 1, retrievalOutstanding)
  /\ UNCHANGED <<diskVars, pc, lastExit, startVars, ghostVars, countVars,
                 messageHistory, armed, retrieved, finalResult, inflight, nRead, nPrinted, dropped,
                 asked, historyBefore, turnLog, lastTurn>>

\* the rephrase call fails
RephraseFail ==
  /\ pc = "serving" /\ stage = "Rephrasing"
  /\ llmOutstanding' = llmOutstanding - 1
  /\ UNCHANGED retrievalOutstanding
  /\ TurnRejected

\* lines 140-142 with 80-84: the retriever returns; context is assigned and
\* the next step is entered
RetrieveReturn ==
  /\ pc = "serving" /\ stage = "Retrieving"
  /\ \E documents \in Retrievals(loadedVectorStore) :
       /\ retrieved' = documents
       /\ input' = [input EXCEPT !.context = convertDocsToString(documents)]
       /\ Issue(StageAfter(stage), input', nRephrase, nRetrieve, nGenerate,
                llmOutstanding, retrievalOutstanding - 1)
  /\ UNCHANGED <<diskVars, pc, lastExit, startVars, ghostVars, countVars,
                 messageHistory, armed, finalResult, inflight, nRead, nPrinted, dropped,
                 asked, historyBefore, turnLog, lastTurn>>

\* the retrieval (embedding of the query, search) fails
RetrieveFail ==
  /\ pc = "serving" /\ stage = "Retrieving"
  /\ retrievalOutstanding' = retrievalOutstanding - 1
  /\ UNCHANGED llmOutstanding
  /\ TurnRejected

\* lines 143-145 and 150-155: the answer call returns; the wrapper stores the
\* turn and invoke resolves
GenerateReturn ==
  /\ pc = "serving" /\ stage = "Generating"
  /\ \E a \in Answers :
       /\ finalResult' = a
       /\ messageHistory' = ExitHistory(messageHistory, input, a)
       /\ turnLog' = Append(turnLog, [question |-> asked, answer |-> a])
  /\ Issue(StageAfter(stage), input, nRephrase, nRetrieve, nGenerate,
           llmOutstanding - 1, retrievalOutstanding)
  /\ lastTurn' = "ok"
  /\ input' = NoInput /\ retrieved' = <<>>
  /\ UNCHANGED <<diskVars, pc, lastExit, startVars, ghostVars, countVars,
                 armed, inflight, nRead, nPrinted, dropped, asked, historyBefore>>

\* the answer call fails
GenerateFail ==
  /\ pc = "serving" /\ stage = "Generating"
  /\ llmOutstanding' = llmOutstanding - 1
  /\ UNCHANGED retrievalOutstanding
  /\ TurnRejected

\* mutant of PrintAnswer: the answer is printed and askQuestion is not called
PrintAnswerNoAsk ==
  /\ pc = "serving" /\ finalResult # None
  /\ nPrinted' = nPrinted + 1
  /\ finalResult' = None
  /\ inflight' = inflight - 1
  /\ input' = NoInput /\ rephrasePrompt' = NoPrompt /\ retrieverQuery' = None
  /\ retrieved' = <<>>
  /\ prompt' = NoPrompt
  /\ UNCHANGED <<diskVars, pc, lastExit, startVars, ghostVars, countVars,
                 messageHistory, armed, stage, llmOutstanding, retrievalOutstanding,
                 nRephrase, nRetrieve, nGenerate,
                 nRead, dropped, asked, historyBefore, turnLog, lastTurn>>

\* lines 173-174: the answer is printed and the next question is asked; the
\* objects of the finished invoke are gone
PrintAnswer ==
  /\ pc = "serving" /\ finalResult # None
  /\ nPrinted' = nPrinted + 1
  /\ finalResult' = None
  /\ inflight' = inflight - 1
  /\ armed' = TRUE
  /\ input' = NoInput /\ rephrasePrompt' = NoPrompt /\ retrieverQuery' = None
  /\ retrieved' = <<>>
  /\ prompt' = NoPrompt
  /\ UNCHANGED <<diskVars, pc, lastExit, startVars, ghostVars, countVars,
                 messageHistory, stage, llmOutstanding, retrievalOutstanding,
                 nRephrase, nRetrieve, nGenerate,
                 nRead, dropped, asked, historyBefore, turnLog, lastTurn>>

Next ==
  \/ EditCorpus \/ StartProcess \/ Crash
  \/ ComputeHash \/ ComputeHashFail
  \/ ReadSidecar \/ ReadSidecarFail
  \/ LoadCsv \/ LoadCsvFail
  \/ Build \/ BuildFail
  \/ SaveWrite \/ SaveFail
  \/ WriteHashOpen \/ WriteHashDone
  \/ LoadIndex \/ LoadIndexFail
  \/ UserLine \/ UserLineDropped
  \/ RephraseReturn \/ RephraseFail
  \/ RetrieveReturn \/ RetrieveFail
  \/ GenerateReturn \/ GenerateFail
  \/ PrintAnswer \/ UnhandledRejection

Spec == Init /\ [][Next]_vars

\* One process in which nothing fails and nobody kills it: every call that
\* was issued returns, the callback continuation runs, the user goes on typing.
LiveNext ==
  \/ StartProcess
  \/ ComputeHash \/ ReadSidecar
  \/ LoadCsv \/ Build \/ SaveWrite
  \/ WriteHashOpen \/ WriteHashDone
  \/ LoadIndex
  \/ UserLine \/ UserLineDropped
  \/ RephraseReturn \/ RetrieveReturn \/ GenerateReturn
  \/ PrintAnswer

LiveSpec ==
  /\ Init /\ [][LiveNext]_vars
  /\ WF_vars(RephraseReturn) /\ WF_vars(RetrieveReturn) /\ WF_vars(GenerateReturn)
  /\ WF_vars(PrintAnswer) /\ WF_vars(UserLine)

\* ------------------------------------------------------------- properties

\* C1: when a process starts after a crash and the sidecar holds the digest
\* of the corpus now on disk, the index on disk is a complete index built
\* from exactly that corpus (a crash never leaves a stale index looking fresh).
C1_CrashNeverLeavesStaleIndexFresh ==
  (pc = "hash" /\ lastExit = "crash" /\ startedFresh) => index = BuiltFrom(corpus)

\* C2: a process started with a sidecar equal to the digest of the corpus
\* loads no corpus, builds nothing, persists nothing and writes no sidecar;
\* index and sidecar on disk stay as they are and only the index load runs.
C2_Idempotent ==
  /\ [](startedFresh =>
          /\ nLoad = 0 /\ nBuild = 0 /\ nPersist = 0 /\ nSidecarWrite = 0
          /\ nIndexLoad <= 1
          /\ (pc = "serving" => nIndexLoad = 1))
  /\ [][(startedFresh /\ startedFresh') => UNCHANGED <<index, sidecarExists, sidecar>>]_vars

C2_Witness == startedFresh /\ pc = "serving" /\ nIndexLoad = 1 /\ nBuild = 0

\* C3: the process rebuilds exactly when the sidecar was missing or held
\* something else than the digest of the corpus; a rebuild that went through
\* made one corpus load, one build over all documents, one persist and one
\* sidecar write, of the digest computed at the start of the process.
C3_ReindexDecision ==
  /\ nLoad <= 1 /\ nBuild <= 1 /\ nPersist <= 1 /\ nSidecarWrite <= 1
  /\ (decided # None => (decided = "rebuild" <=> ~startedFresh))
  /\ (decided = "skip" => nLoad + nBuild + nPersist + nSidecarWrite = 0)
  /\ (decided = "rebuild" /\ pc \in {"loadIndex", "serving", "rejected"} =>
        /\ nLoad = 1 /\ nBuild = 1 /\ nPersist = 1 /\ nSidecarWrite = 1
        /\ vectorstore_2 = BuiltFrom(corpus) /\ index = vectorstore_2
        /\ currentHash = calculateHash(corpus)
        /\ sidecarExists /\ sidecar = currentHash)

C3_Witness ==
  /\ decided = "rebuild" /\ pc = "serving"
  /\ previousHash # Undefined /\ Len(previousHash) = HashLen
  /\ nBuild = 1 /\ sidecar = currentHash

\* the stored messages are exactly the completed turns, question then answer
HistoryMatchesLog ==
  /\ Len(messageHistory) = 2 * Len(turnLog)
  /\ \A i \in 1..Len(turnLog) :
       /\ messageHistory[2 * i - 1] = HumanMessage(turnLog[i].question)
       /\ messageHistory[2 * i] = AIMessage(turnLog[i].answer)

\* C4: whenever the session is Idle after N successful turns the history
\* holds 2N messages, message 2i-1 the question of turn i and message 2i its
\* answer; while the process lives the history only grows at its end.
C4_HistoryOrdering ==
  /\ [](stage = "Idle" => HistoryMatchesLog)
  /\ [][pc' # "off" => IsPrefix(messageHistory, messageHistory')]_vars

C4_Witness == stage = "Idle" /\ Len(turnLog) = MaxTurns /\ Len(messageHistory) = 2 * MaxTurns

\* C5: from the moment a turn starts until it completes, and after it failed
\* or was given up, the history is the one from before the turn: 2(k-1)
\* messages for turn k.
C5_TurnIsolation ==
  (stage \in {"Rephrasing", "Retrieving", "Generating"} \/ lastTurn = "failed") =>
    /\ messageHistory = historyBefore
    /\ Len(messageHistory) = 2 * Len(turnLog)
    /\ Len(messageHistory) = 2 * (nRead - 1)

C5_Witness ==
  /\ lastTurn = "failed" /\ stage = "Generating" /\ nRead = 2
  /\ Len(messageHistory) = 2

\* C6: after a turn failed in the rephrase or the answer call the loop is
\* still serving.
C6_LoopSurvivesFailedTurn ==
  (lastTurn = "failed" /\ stage \in {"Rephrasing", "Generating"}) => pc = "serving"

\* C7: the query the retriever is called with is the standalone question the
\* rephrase step of the same turn produced.
C7_RetrieverGetsStandalone ==
  stage = "Retrieving" => retrieverQuery = input.standalone_question

\* C8: the question in the answer prompt is the line the user entered, and
\* so is the user message stored for the turn.
C8_AnswerSeesOriginal ==
  /\ (stage = "Generating" => prompt.question = asked)
  /\ (stage = "Idle" /\ lastTurn = "ok" =>
        /\ Len(messageHistory) >= 2
        /\ messageHistory[Len(messageHistory) - 1] = HumanMessage(asked))

C8_Witness ==
  /\ stage = "Generating" /\ lastTurn = "ok" /\ nRead = 2
  /\ input.standalone_question # asked /\ prompt.question = asked
  /\ messageHistory[1].role = "human"

StageOrder == {<<"Idle", "Rephrasing">>, <<"Rephrasing", "Retrieving">>,
               <<"Retrieving", "Generating">>, <<"Generating", "Idle">>}

CallsOfTurn == <<nRephrase, nRetrieve, nGenerate>>

\* C9: a turn moves Idle, Rephrasing, Retrieving, Generating, Idle; it makes
\* one rephrase call, then one retrieval, then one answer call, each issued
\* when the one before has returned, none twice and none left out.
C9_StageOrder ==
  /\ [](/\ (stage = "Rephrasing" => CallsOfTurn = <<1, 0, 0>>)
        /\ (stage = "Retrieving" => CallsOfTurn = <<1, 1, 0>>)
        /\ (stage = "Generating" => CallsOfTurn = <<1, 1, 1>>)
        /\ (stage = "Idle" /\ nRead > 0 => CallsOfTurn = <<1, 1, 1>>)
        /\ (pc = "serving" =>
              /\ llmOutstanding = (IF stage \in {"Rephrasing", "Generating"} THEN 1 ELSE 0)
              /\ retrievalOutstanding = (IF stage = "Retrieving" THEN 1 ELSE 0)))
  /\ [][(stage' # stage /\ pc' # "off") => <<stage, stage'>> \in StageOrder]_vars

C9_Witness ==
  /\ stage = "Idle" /\ finalResult # None /\ Len(turnLog) = 1
  /\ CallsOfTurn = <<1, 1, 1>> /\ llmOutstanding = 0 /\ retrievalOutstanding = 0

\* C10: at most one turn is in flight, at most one language-model call is
\* outstanding, and a question is read only when every answer before it has
\* been printed.
C10_Sequential ==
  /\ inflight <= 1 /\ llmOutstanding <= 1
  /\ nRead <= nPrinted + 1
  /\ (armed => inflight = 0 /\ nRead = nPrinted)
  /\ (stage # "Idle" => inflight = 1 /\ nRead = nPrinted + 1)

C10_Witness == dropped /\ nRead = 2 /\ stage = "Generating" /\ llmOutstanding = 1

\* C11: a process loads the index from storage once, rebuilt or not, and after
\* a rebuild only when persist and sidecar write are done; no question is
\* read and no retrieval made before the load, and once the first prompt is
\* out nothing is built or persisted any more.
C11_StartupGating ==
  /\ [](/\ nIndexLoad <= 1
        /\ (pc \in {"serving", "rejected"} => nIndexLoad = 1 /\ loadedVectorStore = index)
        /\ (nIndexLoad = 1 /\ decided = "rebuild" =>
              /\ nPersist = 1 /\ written = Parts
              /\ nSidecarWrite = 1 /\ sidecar = currentHash)
        /\ ((armed \/ nRead > 0 \/ nRetrieve > 0) => nIndexLoad = 1))
  /\ [][(pc \in {"serving", "rejected"} /\ pc' # "off") =>
          UNCHANGED <<nLoad, nBuild, nPersist, index>>]_vars

C11_Witness ==
  /\ pc = "serving" /\ decided = "rebuild" /\ nIndexLoad = 1 /\ nPersist = 1
  /\ nRetrieve = 1 /\ stage = "Retrieving"

\* C12: no process ends on a sidecar that exists but cannot be read; it
\* rebuilds as if there were none.
C12_UnreadableSidecarRebuilds == lastExit # "IOError:sidecar"

\* C13: the sidecar is written only when build and persist of the same process
\* are done; while the corpus is loaded or the index built, index and sidecar
\* on disk stay as they are, and a failed persist leaves the sidecar alone.
C13_SidecarAfterPersist ==
  /\ [](nSidecarWrite > 0 => nLoad = 1 /\ nBuild = 1 /\ nPersist = 1 /\ written = Parts)
  /\ [][(pc \in {"loadCsv", "build"}) => (UNCHANGED <<index, sidecarExists, sidecar>>)]_vars
  /\ [][(pc = "save") => (UNCHANGED <<sidecarExists, sidecar>>)]_vars

C13_Witness ==
  /\ pc = "off" /\ lastExit = "EmbeddingError"
  /\ corpus # NoFile /\ Complete(index) /\ index # BuiltFrom(corpus)
  /\ sidecarExists /\ sidecar = calculateHash(index.vectors)

\* C14: a process ends on a failed build, or on a persist that failed before
\* it wrote anything, only if ./vector_db held no index that could be loaded.
C14_FallsBackToExistingIndex ==
  [][(pc \in {"build", "save"} /\ written = {} /\ pc' = "off"
        /\ lastExit' \in {"EmbeddingError", "StorageError:save"}) =>
       (index.vectors = NoFile \/ index.docstore = NoFile)]_vars

Block(content) == "<doc>\n" \o content \o "\n</doc>"

RECURSIVE BlocksUpTo(_, _)
BlocksUpTo(ds, k) ==
  IF k = 0 THEN ""
  ELSE IF k = 1 THEN Block(ds[1])
  ELSE BlocksUpTo(ds, k - 1) \o "\n" \o Block(ds[k])

RECURSIVE TotalLen(_, _)
TotalLen(ds, k) == IF k = 0 THEN 0 ELSE TotalLen(ds, k - 1) + Len(ds[k])

\* C16: the context of a turn is the blocks of the retrieved documents in
\* retrieval order, joined by newlines, each document once; nothing retrieved
\* gives the empty string.
C16_ContextKeepsOrder ==
  stage = "Generating" =>
    /\ input.context = BlocksUpTo(retrieved, Len(retrieved))
    /\ prompt.context = input.context
    /\ (retrieved = <<>> => input.context = "")
    /\ (retrieved # <<>> =>
          Len(input.context) = TotalLen(retrieved, Len(retrieved)) + 14 * Len(retrieved) - 1)

C16_Witness ==
  /\ stage = "Generating" /\ Len(retrieved) = MaxDocs
  /\ retrieved[1] # retrieved[MaxDocs]

\* the messages of the turns completed so far
RECURSIVE MessagesOf(_)
MessagesOf(log) ==
  IF log = <<>> THEN <<>>
  ELSE <<HumanMessage(log[1].question), AIMessage(log[1].answer)>> \o MessagesOf(Tail(log))

\* C18: within a turn the rephrase call and the answer call are given the same
\* history: the messages of the turns completed before, two per turn, without
\* the question of the turn itself; empty in the first turn, not in the second.
C18_HistorySnapshot ==
  /\ (stage \in {"Rephrasing", "Retrieving", "Generating"} =>
        /\ rephrasePrompt.history = MessagesOf(turnLog)
        /\ Len(rephrasePrompt.history) = 2 * (nRead - 1))
  /\ (stage = "Generating" => prompt.history = rephrasePrompt.history)

C18_Witness ==
  /\ stage = "Generating" /\ nRead = 2
  /\ Len(rephrasePrompt.history) = 2 /\ prompt.history = rephrasePrompt.history

\* C19: once the first prompt is out the sidecar exists and holds the digest
\* computed when the process started, rebuilt or not, and it is not written
\* again.
C19_SidecarCurrentWhenServing ==
  /\ [](pc \in {"serving", "rejected"} =>
          /\ sidecarExists /\ sidecar = currentHash
          /\ currentHash = calculateHash(corpus))
  /\ [][(pc \in {"serving", "rejected"}) => (UNCHANGED <<sidecarExists, sidecar>>)]_vars
  /\ [][(pc \in {"serving", "rejected"} /\ pc' # "off") => (UNCHANGED nSidecarWrite)]_vars

C19_Witness ==
  /\ pc = "serving" /\ decided = "skip" /\ nSidecarWrite = 0 /\ nPrinted = 1
  /\ sidecarExists /\ sidecar = currentHash

\* C17: when every call returns and the user keeps typing, each question read
\* is followed by one printed answer, the answer of that question, and then
\* by the next prompt; the loop does not leave the serving phase by itself.
C17_LoopLiveness ==
  /\ \A k \in 1..MaxTurns : (nRead = k) ~> (nPrinted = k /\ armed)
  /\ [](/\ nPrinted <= nRead
        /\ (finalResult # None =>
              /\ Len(turnLog) = nRead /\ nPrinted = nRead - 1
              /\ turnLog[nRead] = [question |-> asked, answer |-> finalResult]))
  /\ [][(pc = "serving") => (pc' = "serving" /\ nPrinted' \in {nPrinted, nPrinted + 1})]_vars

C17_Witness == pc = "serving" /\ nRead = MaxTurns /\ nPrinted = MaxTurns /\ armed
====
